---- MODULE Spec2Model ----
(***************************************************************************)
(* Model of the tokenizer of gentlemen-rs (src/src/lexer.rs).              *)
(*                                                                         *)
(* A byte buffer is a sequence of one-character strings.  Every recognizer *)
(* of lexer.rs is an operator from a buffer to a parse result, built from  *)
(* the nom 3 combinators the source names (tag!, alt!, ws!, one_of!,       *)
(* char!, is_not!, delimited!, many0!, fold_many0!, map_res!, eof!, alpha, *)
(* alphanumeric, digit, multispace, not_line_ending, anychar).  A result   *)
(* is Done (remaining buffer and output), Incomplete or Error, as nom's    *)
(* IResult.  The Needed count of Incomplete and the ErrorKind of Error     *)
(* only reach the text of the error message and are not modelled.          *)
(*                                                                         *)
(* Lexer::generate_tokens is the state machine: one step per iteration of  *)
(* its loop.                                                               *)
(***************************************************************************)
EXTENDS Integers, Sequences, FiniteSets, TLC

(***************************************************************************)
(* Bounds of the model.                                                    *)
(***************************************************************************)
\* number of pieces concatenated to build a source buffer
MaxPieces == 3

(***************************************************************************)
(* Character classes (nom: is_alphabetic, is_digit, sp / multispace).      *)
(***************************************************************************)
Alpha ==
  {"a","b","c","d","e","f","g","h","i","j","k","l","m",
   "n","o","p","q","r","s","t","u","v","w","x","y","z",
   "A","B","C","D","E","F","G","H","I","J","K","L","M",
   "N","O","P","Q","R","S","T","U","V","W","X","Y","Z"}

Digit == {"0","1","2","3","4","5","6","7","8","9"}

AlphaNum == Alpha \cup Digit

WS == {" ", "\t", "\r", "\n"}

\* i32::MAX, the largest value str::parse::<i32> accepts
I32_MAX == 2147483647

(***************************************************************************)
(* Buffers and parse results.                                              *)
(***************************************************************************)
Take(s, n) == SubSeq(s, 1, n)

Drop(s, n) == SubSeq(s, n + 1, Len(s))

MinOf(S) == CHOOSE x \in S : \A y \in S : x <= y

\* index of the first element of s satisfying "in C", 0 when there is none
\* (Iterator::position, counted from 1)
Position(s, C) ==
  LET idx == {j \in 1..Len(s) : s[j] \in C}
  IN  IF idx = {} THEN 0 ELSE MinOf(idx)

\* length of the longest prefix of s made of characters of C
SpanLen(s, C) ==
  LET idx == {j \in 1..Len(s) : s[j] \notin C}
  IN  IF idx = {} THEN Len(s) ELSE MinOf(idx) - 1

Done(rem, out) == [k |-> "Done", rem |-> rem, out |-> out]

Incomplete == [k |-> "Incomplete"]

Error == [k |-> "Error"]

(***************************************************************************)
(* nom 3 primitives used by lexer.rs.                                      *)
(***************************************************************************)
\* sp: eat_separator!(" \t\r\n"), never fails
sp(i) == Done(Drop(i, SpanLen(i, WS)), Take(i, SpanLen(i, WS)))

\* tag!(t): Compare for byte slices: a mismatch in the common prefix is an
\* Error, a buffer that is a proper prefix of the tag is Incomplete
tag(i, t) ==
  LET m == IF Len(i) < Len(t) THEN Len(i) ELSE Len(t)
  IN  IF Take(i, m) # Take(t, m) THEN Error
      ELSE IF m < Len(t) THEN Incomplete
      ELSE Done(Drop(i, Len(t)), t)

\* char!(c)
char(i, c) ==
  IF i = <<>> THEN Incomplete
  ELSE IF i[1] = c THEN Done(Tail(i), c)
  ELSE Error

\* one_of!(set)
one_of(i, C) ==
  IF i = <<>> THEN Incomplete
  ELSE IF i[1] \in C THEN Done(Tail(i), i[1])
  ELSE Error

\* is_not!(set): the longest non-empty prefix without a character of set
is_not(i, C) ==
  LET p == Position(i, C)
  IN  IF p = 1 THEN Error
      ELSE IF p = 0 THEN Done(<<>>, i)
      ELSE Done(Drop(i, p - 1), Take(i, p - 1))

\* eof!()
eof(i) == IF i = <<>> THEN Done(i, i) ELSE Error

\* alpha, alphanumeric, digit, multispace: one or more characters of a class
class1(i, C) ==
  IF i = <<>> THEN Incomplete
  ELSE IF i[1] \notin C THEN Error
  ELSE Done(Drop(i, SpanLen(i, C)), Take(i, SpanLen(i, C)))

alpha(i) == class1(i, Alpha)

alphanumeric(i) == class1(i, AlphaNum)

digit(i) == class1(i, Digit)

multispace(i) == class1(i, WS)

\* anychar
anychar(i) == IF i = <<>> THEN Incomplete ELSE Done(Tail(i), i[1])

\* not_line_ending: up to the first \r or \n; a \r must start a \r\n
not_line_ending(i) ==
  LET p == Position(i, {"\r", "\n"})
  IN  IF p = 0 THEN Done(<<>>, i)
      ELSE IF i[p] = "\r"
           THEN LET c == tag(Drop(i, p - 1), <<"\r", "\n">>)
                IN  IF c.k = "Done" THEN Done(Drop(i, p - 1), Take(i, p - 1))
                    ELSE c
           ELSE Done(Drop(i, p - 1), Take(i, p - 1))

\* wrap_sep!(sp, P) is P(sep(i)): P runs after the leading separator
sep(i) == sp(i).rem

\* ws!(P) is ws(P(sep(i))): P between a leading and a trailing run of
\* whitespace; the trailing run is eaten when P is Done
ws(r) == IF r.k = "Done" THEN Done(sp(r.rem).rem, r.out) ELSE r

\* alt!(tag!(t1) | tag!(t2) | ...) under ws!: each alternative is tried
\* after the separator; the first result that is not an Error is returned,
\* an Incomplete included
RECURSIVE alt_tags(_, _)
alt_tags(i, ts) ==
  IF ts = <<>> THEN Error
  ELSE LET r == tag(sep(i), Head(ts))
       IN  IF r.k = "Error" THEN alt_tags(i, Tail(ts)) ELSE r

\* many0!(multispace)
RECURSIVE many0_multispace(_)
many0_multispace(i) ==
  IF i = <<>> THEN Done(i, <<>>)
  ELSE LET r == multispace(i)
       IN  IF r.k = "Error" THEN Done(i, <<>>)
           ELSE IF r.k = "Incomplete" THEN Incomplete
           ELSE IF r.rem = i THEN Error
           ELSE many0_multispace(r.rem)

\* alt!(alphanumeric | tag!("_"))
ident_part(i) ==
  LET r == alphanumeric(i)
  IN  IF r.k = "Error" THEN tag(i, <<"_">>) ELSE r

\* fold_many0!(alt!(alphanumeric | tag!("_")), init, extend)
RECURSIVE fold_many0(_, _)
fold_many0(i, acc) ==
  IF i = <<>> THEN Done(i, acc)
  ELSE LET r == ident_part(i)
       IN  IF r.k = "Error" THEN Done(i, acc)
           ELSE IF r.k = "Incomplete" THEN Incomplete
           ELSE IF r.rem = i THEN Error
           ELSE fold_many0(r.rem, acc \o r.out)

\* str::parse::<i32> on a run of decimal digits: checked multiply and add
DigitVal(c) == CHOOSE n \in 0..9 : <<"0","1","2","3","4","5","6","7","8","9">>[n + 1] = c

RECURSIVE parse_i32(_, _)
parse_i32(s, acc) ==
  IF s = <<>> THEN [ok |-> TRUE, val |-> acc]
  ELSE IF acc > (I32_MAX - DigitVal(Head(s))) \div 10
       THEN [ok |-> FALSE]
       ELSE parse_i32(Tail(s), acc * 10 + DigitVal(Head(s)))

(***************************************************************************)
(* Tokens.                                                                 *)
(***************************************************************************)
Tok(t) == [type |-> t]

Ident(s) == [type |-> "Ident", text |-> s]

String(s) == [type |-> "String", text |-> s]

Integer(n) == [type |-> "Integer", int |-> n]

Char(c) == [type |-> "Char", ch |-> c]

(***************************************************************************)
(* The recognizers of lexer.rs.                                            *)
(***************************************************************************)
\* map!(r, f) and do_parse!(r >> (out)): the output of a Done result is
\* replaced, any other result is passed on
map(r, out) == IF r.k = "Done" THEN Done(r.rem, out) ELSE r

file_end(i) == map(ws(eof(sep(i))), Tok("Eof"))

\* ws!(delimited!(char!('"'), is_not!("\""), char!('"'))): the separator is
\* eaten before each of the three parsers and after the last
string(i) ==
  LET open == char(sep(i), "\"")
  IN  IF open.k # "Done" THEN open
      ELSE LET body == is_not(sep(open.rem), {"\""})
           IN  IF body.k # "Done" THEN body
               ELSE LET close == char(sep(body.rem), "\"")
                    IN  IF close.k # "Done" THEN close
                        ELSE Done(sp(close.rem).rem, String(body.out))

DelimiterToken(d) ==
  CASE d = "{" -> Tok("OpenBrace")
    [] d = "}" -> Tok("CloseBrace")
    [] d = "(" -> Tok("OpenParen")
    [] d = ")" -> Tok("CloseParen")
    [] d = "[" -> Tok("OpenBracket")
    [] d = "]" -> Tok("CloseIndex")

delimiter(i) ==
  LET r == ws(one_of(sep(i), {"(", ")", "{", "}", "[", "]"}))
  IN  IF r.k # "Done" THEN r ELSE Done(r.rem, DelimiterToken(r.out))

ArithToken(d) ==
  CASE d = "+" -> Tok("Plus")
    [] d = "-" -> Tok("Minus")
    [] d = "*" -> Tok("Star")
    [] d = "/" -> Tok("Slash")
    [] d = "%" -> Tok("Percent")

arith_op(i) ==
  LET r == ws(one_of(sep(i), {"+", "-", "*", "/", "%"}))
  IN  IF r.k # "Done" THEN r ELSE Done(r.rem, ArithToken(r.out))

\* the catch-all without ws!: leading whitespace is not skipped
any_NoWs(i) ==
  LET r == anychar(i)
  IN  IF r.k # "Done" THEN r ELSE Done(r.rem, Char(r.out))

\* the catch-all under peek!: the character is not consumed
any_Peek(i) ==
  LET r == ws(anychar(sep(i)))
  IN  IF r.k # "Done" THEN r ELSE Done(i, Char(r.out))

any(i) ==
  LET r == ws(anychar(sep(i)))
  IN  IF r.k # "Done" THEN r ELSE Done(r.rem, Char(r.out))

KwIf == <<"i","f">>

KwElseIf == <<"e","l","s","e"," ","i","f">>

KwElse == <<"e","l","s","e">>

KwFor == <<"f","o","r">>

KwWhile == <<"w","h","i","l","e">>

\* "else" tried before "else if"
KeywordTags_ElseFirst == <<KwIf, KwElse, KwElseIf, KwFor, KwWhile>>

\* the order of the alternatives of keyword
KeywordTags == <<KwIf, KwElseIf, KwElse, KwFor, KwWhile>>

KeywordToken(w) ==
  CASE w = KwIf -> Tok("If")
    [] w = KwElseIf -> Tok("ElseIf")
    [] w = KwElse -> Tok("Else")
    [] w = KwFor -> Tok("For")
    [] w = KwWhile -> Tok("While")

keyword(i) ==
  LET r == ws(alt_tags(sep(i), KeywordTags))
  IN  IF r.k # "Done" THEN r ELSE Done(r.rem, KeywordToken(r.out))

ident(i) ==
  LET s == many0_multispace(i)
  IN  IF s.k # "Done" THEN s
      ELSE LET init == alpha(s.rem)
           IN  IF init.k # "Done" THEN init
               ELSE LET r == fold_many0(init.rem, init.out)
                    IN  IF r.k # "Done" THEN r ELSE Done(r.rem, Ident(r.out))

\* the one-character comparison operators tried first
CompTags_ShortFirst == << <<"<">>, <<">">>, <<"<","=">>, <<">","=">>, <<"!","=">>, <<"=","=">> >>

\* the order of the alternatives of comp_op
CompTags == << <<"<","=">>, <<">","=">>, <<"!","=">>, <<"=","=">>, <<"<">>, <<">">> >>

CompToken(o) ==
  CASE o = <<"<","=">> -> Tok("LesserEqual")
    [] o = <<">","=">> -> Tok("GreaterEqual")
    [] o = <<"=","=">> -> Tok("Equal")
    [] o = <<"<">> -> Tok("Lesser")
    [] o = <<">">> -> Tok("Greater")
    [] o = <<"!","=">> -> Tok("NotEqual")

comp_op(i) ==
  LET r == ws(alt_tags(sep(i), CompTags))
  IN  IF r.k # "Done" THEN r ELSE Done(r.rem, CompToken(r.out))

\* the order of the alternatives of assign_op
AssignTags == << <<":","=">>, <<"+","=">>, <<"-","=">>, <<"*","=">>, <<"/","=">> >>

AssignToken(o) ==
  CASE o = <<":","=">> -> Tok("Assign")
    [] o = <<"+","=">> -> Tok("AddAssign")
    [] o = <<"-","=">> -> Tok("SubAssign")
    [] o = <<"*","=">> -> Tok("MultAssign")
    [] o = <<"/","=">> -> Tok("DivAssign")

assign_op(i) ==
  LET r == ws(alt_tags(sep(i), AssignTags))
  IN  IF r.k # "Done" THEN r ELSE Done(r.rem, AssignToken(r.out))

\* preceded!(ws!(tag!("//")), not_line_ending)
comment(i) ==
  LET t == ws(tag(sep(i), <<"/","/">>))
  IN  IF t.k # "Done" THEN t
      ELSE map(not_line_ending(t.rem), Tok("Comment"))

\* map_res!(map_res!(ws!(digit), from_utf8), parse): a failed parse is an Error
integer(i) ==
  LET d == ws(digit(sep(i)))
  IN  IF d.k # "Done" THEN d
      ELSE LET p == parse_i32(d.out, 0)
           IN  IF p.ok THEN Done(d.rem, Integer(p.val)) ELSE Error

\* the alternatives of get_token, in order
Recognizers ==
  <<"file_end", "string", "delimiter", "keyword", "ident", "comment",
    "comp_op", "assign_op", "arith_op", "integer", "any">>

Recognize(name, i) ==
  CASE name = "file_end" -> file_end(i)
    [] name = "string" -> string(i)
    [] name = "delimiter" -> delimiter(i)
    [] name = "keyword" -> keyword(i)
    [] name = "ident" -> ident(i)
    [] name = "comment" -> comment(i)
    [] name = "comp_op" -> comp_op(i)
    [] name = "assign_op" -> assign_op(i)
    [] name = "arith_op" -> arith_op(i)
    [] name = "integer" -> integer(i)
    [] name = "any" -> any(i)

\* alt!: the first alternative whose result is not an Error decides
RECURSIVE alt(_, _)
alt(i, names) ==
  IF names = <<>> THEN Error
  ELSE LET r == Recognize(Head(names), i)
       IN  IF r.k = "Error" THEN alt(i, Tail(names)) ELSE r

get_token(i) == alt(i, Recognizers)

(***************************************************************************)
(* Source buffers handed to Lexer::new.                                    *)
(***************************************************************************)
Pieces ==
  { <<" ">>, <<"\n">>, <<"\"">>, <<"i","f">>, <<"e","l","s","e">>,
    <<"x">>, <<"i">>, <<"1">>, <<"/">>, <<"<">>, <<"=">>, <<"@">> }

RECURSIVE Concat(_)
Concat(n) ==
  IF n = 0 THEN {<<>>}
  ELSE LET g == Concat(n - 1) IN g \cup {s \o p : s \in g, p \in Pieces}

Examples ==
  { <<"x"," ",":","="," ","1"," ","/","/"," ","c","o","m","m","e","n","t","\n",
      "y"," ",":","="," ","2">>,
    <<"9","9","9","9","9","9","9","9","9","9","9">>,
    <<"2","1","4","7","4","8","3","6","4","7">>,
    <<"2","1","4","7","4","8","3","6","4","8">>,
    <<"e","l","s","e","w","h","e","r","e">>,
    <<"n","u","m","_","r","o","w","s","_","1","0">>,
    <<"e","l","s","e"," ","i","f"," ","x">>,
    <<" ","i","f"," ","e","l","s","e"," ","i","f"," ","e","l","s","e"," ",
      "f","o","r"," ","w","h","i","l","e">>,
    <<"\"","h","e","l","l","o"," ","w","o","r","l","d","\"">>,
    <<"\""," ","x","\"">>,
    <<"x"," ",":","="," ","\"","a","b">>,
    <<" ","<"," ",">"," ","<","="," ",">","="," ","=","="," ","!","="," ">>,
    <<" ",":","="," ","+","="," ","-","="," ","*","="," ","/","=">>,
    <<" ","+"," ","-"," ","*"," ","/"," ","%"," ">>,
    <<" ","(",")"," ","[","]"," ","{","}"," ">>,
    <<"/","/"," ","c","\r","\n","x","\n">>,
    <<"/","/","c","\r","x">>,
    <<"@">> }

Inputs == Concat(MaxPieces) \cup Examples

\* the views self.data can hold: the suffixes of the source buffers
Views == UNION {{Drop(s, n) : n \in 0..Len(s)} : s \in Inputs}

\* get_token, tabulated over the views
get_token_of == [i \in Views |-> get_token(i)]

(***************************************************************************)
(* Lexer::generate_tokens.                                                 *)
(***************************************************************************)
VARIABLES
  source,   \* the buffer given to Lexer::new
  data,     \* self.data, the unconsumed view of the buffer
  tokens,   \* the local vector of generate_tokens
  pc,       \* "new" before the lexer exists, "loop" at the head of the
            \* loop, "match" with the result of get_token in hand,
            \* "returned" after generate_tokens has returned
  res,      \* the result of get_token(self.data) the loop matches on
  ret,      \* the value returned by generate_tokens
  prev,     \* the buffer given to the latest get_token call matched on
  last      \* the kind of result of the latest get_token call matched on

vars == <<source, data, tokens, pc, res, ret, prev, last>>

NoRes == [k |-> "None"]

NoRet == [kind |-> "None"]

Ok(ts) == [kind |-> "Ok", tokens |-> ts]

Err == [kind |-> "Err"]

\* before run() is given the contents of the file
Init ==
  /\ source = <<>>
  /\ data = <<>>
  /\ tokens = <<>>
  /\ pc = "new"
  /\ res = NoRes
  /\ ret = NoRet
  /\ prev = <<>>
  /\ last = "none"

\* run(source): Lexer::new(source), then the entry of generate_tokens
New ==
  /\ pc = "new"
  /\ source' \in Inputs
  /\ data' = source'
  /\ tokens' = <<>>
  /\ pc' = "loop"
  /\ UNCHANGED <<res, ret, prev, last>>

\* the head of the loop: get_token(self.data)
GetToken ==
  /\ pc = "loop"
  /\ res' = get_token_of[data]
  /\ pc' = "match"
  /\ UNCHANGED <<source, data, tokens, ret, prev, last>>

\* the result is Done with a token other than Eof: the cursor moves and the
\* token is pushed
Push ==
  /\ pc = "match"
  /\ res.k = "Done"
  /\ res.out # Tok("Eof")
  /\ data' = res.rem
  /\ tokens' = Append(tokens, res.out)
  /\ pc' = "loop"
  /\ prev' = data
  /\ last' = "Done"
  /\ UNCHANGED <<source, res, ret>>

\* Eof does not leave the loop
Break_Continues ==
  /\ pc = "match"
  /\ res.k = "Done"
  /\ res.out = Tok("Eof")
  /\ data' = res.rem
  /\ pc' = "loop"
  /\ prev' = data
  /\ last' = "Eof"
  /\ UNCHANGED <<source, tokens, res, ret>>

\* the result is Done with Eof: the loop breaks and the vector is returned
Break ==
  /\ pc = "match"
  /\ res.k = "Done"
  /\ res.out = Tok("Eof")
  /\ data' = res.rem
  /\ pc' = "returned"
  /\ ret' = Ok(tokens)
  /\ prev' = data
  /\ last' = "Eof"
  /\ UNCHANGED <<source, tokens, res>>

\* a failed get_token leaves the loop and the tokens so far are returned
Fail_ReturnsPartial ==
  /\ pc = "match"
  /\ res.k \in {"Incomplete", "Error"}
  /\ pc' = "returned"
  /\ ret' = Ok(tokens)
  /\ prev' = data
  /\ last' = res.k
  /\ UNCHANGED <<source, data, tokens, res>>

\* the result is Incomplete or Error: generate_tokens returns Err
Fail ==
  /\ pc = "match"
  /\ res.k \in {"Incomplete", "Error"}
  /\ pc' = "returned"
  /\ ret' = Err
  /\ prev' = data
  /\ last' = res.k
  /\ UNCHANGED <<source, data, tokens, res>>

Next == New \/ GetToken \/ Push \/ Break \/ Fail

Spec == Init /\ [][Next]_vars

\* the loop runs without suspension
FairSpec == Init /\ [][Next]_vars /\ WF_vars(Next)

(***************************************************************************)
(* Vocabulary of the properties.                                           *)
(***************************************************************************)
StartsWith(s, p) == Len(s) >= Len(p) /\ Take(s, Len(p)) = p

IsSuffix(s, t) == Len(s) <= Len(t) /\ s = Drop(t, Len(t) - Len(s))

Strip(s) == sp(s).rem

LastToken == tokens[Len(tokens)]

Returned == pc = "returned"

(***************************************************************************)
(* Comments in the output.                                                 *)
(***************************************************************************)
\* C1: whenever generate_tokens succeeds, the returned list holds no Comment
\* token
C1_NoCommentInOutput ==
  (Returned /\ ret.kind = "Ok") =>
    \A j \in 1..Len(ret.tokens) : ret.tokens[j] # Tok("Comment")

(***************************************************************************)
(* Integer literals.                                                       *)
(***************************************************************************)
IsDigitRun(s) == s # <<>> /\ \A j \in 1..Len(s) : s[j] \in Digit

\* C2: a source that is a run of digits makes generate_tokens fail when its
\* value exceeds i32::MAX and yields exactly [Integer(value)] otherwise
C2_IntegerOverflowFails ==
  (Returned /\ IsDigitRun(source)) =>
    IF parse_i32(source, 0).ok
    THEN ret = Ok(<<Integer(parse_i32(source, 0).val)>>)
    ELSE ret = Err

(***************************************************************************)
(* Identifiers and keywords.                                               *)
(***************************************************************************)
IsIdentifier(s) ==
  /\ s # <<>>
  /\ s[1] \in Alpha
  /\ \A j \in 2..Len(s) : s[j] \in AlphaNum \cup {"_"}

Keywords == {KwIf, KwElse, KwFor, KwWhile}

\* C3: a source that is one identifier and not a keyword yields exactly
\* [Ident(source)]
C3_IdentifierAlone ==
  (Returned /\ IsIdentifier(source) /\ source \notin Keywords) =>
    ret = Ok(<<Ident(source)>>)

\* C4: when the buffer given to get_token begins, after whitespace, with
\* "else if", the call is Done with the single token ElseIf and the cursor
\* is past both words
C4_ElseIfIsOneToken ==
  (last # "none" /\ StartsWith(Strip(prev), KwElseIf)) =>
    /\ last = "Done"
    /\ tokens # <<>>
    /\ LastToken = Tok("ElseIf")
    /\ data = Strip(Drop(Strip(prev), Len(KwElseIf)))

C4_Witness ==
  /\ last = "Done"
  /\ StartsWith(Strip(prev), KwElseIf)
  /\ prev # source
  /\ LastToken = Tok("ElseIf")
  /\ data # <<>>

(***************************************************************************)
(* Operators.                                                              *)
(***************************************************************************)
TwoCharOps ==
  { << <<"<","=">>, "LesserEqual" >>, << <<">","=">>, "GreaterEqual" >>,
    << <<"=","=">>, "Equal" >>, << <<"!","=">>, "NotEqual" >>,
    << <<":","=">>, "Assign" >>, << <<"+","=">>, "AddAssign" >>,
    << <<"-","=">>, "SubAssign" >>, << <<"*","=">>, "MultAssign" >>,
    << <<"/","=">>, "DivAssign" >> }

\* C5: when the buffer given to get_token begins, after whitespace, with a
\* two-character operator, the call is Done with the one token of that
\* operator and the cursor is past both characters
C5_TwoCharOperators ==
  \A o \in TwoCharOps :
    (last # "none" /\ StartsWith(Strip(prev), o[1])) =>
      /\ last = "Done"
      /\ tokens # <<>>
      /\ LastToken = Tok(o[2])
      /\ data = Strip(Drop(Strip(prev), 2))

C5_Witness ==
  /\ Returned
  /\ ret = Ok(<<Tok("Lesser"), Tok("Greater"), Tok("LesserEqual"),
                Tok("GreaterEqual"), Tok("Equal"), Tok("NotEqual")>>)

(***************************************************************************)
(* The catch-all.                                                          *)
(***************************************************************************)
Earlier == SubSeq(Recognizers, 1, Len(Recognizers) - 1)

\* C6 as stated: when the buffer given to get_token is not empty after
\* whitespace and no earlier recognizer is Done on it, the call is Done with
\* Char of the next character
C6_CatchAllWhenNoneMatches ==
  (/\ last # "none"
   /\ Strip(prev) # <<>>
   /\ \A n \in 1..Len(Earlier) : Recognize(Earlier[n], prev).k # "Done") =>
    /\ last = "Done"
    /\ tokens # <<>>
    /\ LastToken = Char(Strip(prev)[1])

\* C6 amended: when the buffer given to get_token is not empty after
\* whitespace and every earlier recognizer rejects it with Error (none is
\* Done, none is Incomplete), the call is Done with Char of the next
\* character and generate_tokens does not fail at it
C6_CatchAllWhenAllReject ==
  (/\ last # "none"
   /\ Strip(prev) # <<>>
   /\ \A n \in 1..Len(Earlier) : Recognize(Earlier[n], prev).k = "Error") =>
    /\ last = "Done"
    /\ ret # Err
    /\ tokens # <<>>
    /\ LastToken = Char(Strip(prev)[1])
    /\ data = Strip(Tail(Strip(prev)))

C6_Witness ==
  /\ Returned
  /\ source = <<"@">>
  /\ ret = Ok(<<Char("@")>>)

(***************************************************************************)
(* String literals.                                                        *)
(***************************************************************************)
IsStringLiteral(s) ==
  /\ Len(s) >= 3
  /\ s[1] = "\""
  /\ s[Len(s)] = "\""
  /\ \A j \in 2..(Len(s) - 1) : s[j] # "\""

\* C7: a source that is one string literal yields exactly one String token
\* whose payload is the text between the quotes, unchanged
C7_StringPayload ==
  (Returned /\ IsStringLiteral(source)) =>
    ret = Ok(<<String(SubSeq(source, 2, Len(source) - 1))>>)

(***************************************************************************)
(* Failure and termination.                                                *)
(***************************************************************************)
\* C8: generate_tokens returns either an error carrying no token, when a
\* get_token call was Incomplete or Error, or the list of all the tokens of
\* the whole input, after Eof; tokens recognized before a failure are not
\* returned
C8_FailureIsAtomic ==
  Returned =>
    \/ last \in {"Incomplete", "Error"} /\ ret = Err
    \/ last = "Eof" /\ ret = Ok(tokens) /\ data = <<>>

C8_Witness ==
  /\ Returned
  /\ last = "Incomplete"
  /\ Len(tokens) >= 2
  /\ ret = Err

\* C9: no recognizer is Done on a non-empty buffer without consuming, and
\* each step of the loop leaves a suffix of the buffer it was given, strictly
\* shorter after a successful get_token on a non-empty buffer
C9_CursorAdvances ==
  [][(pc \in {"loop", "match"}) =>
       (/\ \A n \in 1..Len(Recognizers) :
             (data # <<>> /\ Recognize(Recognizers[n], data).k = "Done") =>
               (/\ Len(Recognize(Recognizers[n], data).rem) < Len(data)
                /\ IsSuffix(Recognize(Recognizers[n], data).rem, data))
        /\ IsSuffix(data', data)
        /\ (data # <<>> /\ pc = "match" /\ last' \in {"Done", "Eof"}) =>
             (Len(data') < Len(data)))]_vars

C9_Witness ==
  /\ last = "Done"
  /\ Len(tokens) >= 3
  /\ data # <<>>
  /\ Len(data) < Len(prev)
  /\ IsSuffix(data, source)

\* C10: the loop ends; it ends with the empty list when the source is empty
\* or only whitespace, and a successful return has consumed the whole input
C10_Terminates ==
  <>(/\ Returned
     /\ last \in {"Eof", "Incomplete", "Error"}
     /\ (ret.kind = "Ok" => Strip(data) = <<>>)
     /\ (Strip(source) = <<>> => ret = Ok(<<>>)))

C10_Witness ==
  /\ Returned
  /\ source # <<>>
  /\ Strip(source) = <<>>
  /\ ret = Ok(<<>>)

====
